---- MODULE Spec2Model ----
(***************************************************************************)
(* Model of python/flatbuffers/vectors.py: the vector indexer classes      *)
(* (VectorIndexer, StructVectorIndexer, SimpleVectorIndexer,               *)
(* StringVectorIndexer) and VectorIterator.                                *)
(*                                                                         *)
(* A Python call is modelled by an operator that yields a result record    *)
(*   [outcome, value, unpacked]                                            *)
(* outcome is "return" or the name of the exception that propagates out of *)
(* the call, value the returned object, unpacked the indices handed to     *)
(* _unpack_index during the call, in call order.                           *)
(***************************************************************************)
EXTENDS Integers, Sequences, FiniteSets, TLC

\* ---------------------------------------------------------------- bounds
MaxLen == 3          \* longest vector stored in a table
MaxIters == 2        \* iterators alive at once

\* ------------------------------------------------------- program constants
UOffsetBytewidth == 4    \* width of a uoffset / of the vector length prefix
VecField == 4            \* field offset that denotes the vector field
BadField == 6            \* field offset that denotes no vector field

\* ---------------------------------------------------------- Python values
None == [tag |-> "None", n |-> 0, s |-> <<>>]
IntVal(k) == [tag |-> "int", n |-> k, s |-> <<>>]
StructVal(a) == [tag |-> "struct", n |-> a, s |-> <<>>]
StrVal(bs) == [tag |-> "str", n |-> 0, s |-> bs]
ListVal(xs) == [tag |-> "list", n |-> 0, s |-> xs]
TupleVal(xs) == [tag |-> "tuple", n |-> 0, s |-> xs]
IterVal(k) == [tag |-> "iterator", n |-> k, s |-> <<>>]

Return(x) == [outcome |-> "return", value |-> x, unpacked |-> <<>>]
Raise(exc) == [outcome |-> exc, value |-> None, unpacked |-> <<>>]

\* ------------------------------------------------------------------ keys
\* An index key: an int, a bool (a subclass of int), a slice whose three
\* components are each None or an int, or an object of another type.
Some(k) == [some |-> TRUE, v |-> k]
Absent == [some |-> FALSE, v |-> 0]
IntKey(k) == [type |-> "int", i |-> k, start |-> Absent, stop |-> Absent, step |-> Absent]
BoolKey(b) == [type |-> "bool", i |-> IF b THEN 1 ELSE 0, start |-> Absent, stop |-> Absent, step |-> Absent]
SliceKey(a, b, c) == [type |-> "slice", i |-> 0, start |-> a, stop |-> b, step |-> c]
OtherKey(t) == [type |-> t, i |-> 0, start |-> Absent, stop |-> Absent, step |-> Absent]
NoKey == OtherKey("none")

\* isinstance(index, int): true of int and of its subclass bool
IsInt(key) == key.type \in {"int", "bool"}
IsSlice(key) == key.type = "slice"

\* ------------------------------------------------------- the table buffer
RECURSIVE Pow256(_)
Pow256(k) == IF k = 0 THEN 1 ELSE 256 * Pow256(k - 1)

\* little-endian encoding of n in w bytes
EncodeLE(n, w) == [k \in 1..w |-> (n \div Pow256(k - 1)) % 256]

RECURSIVE Flatten(_)
Flatten(ss) == IF ss = <<>> THEN <<>> ELSE Head(ss) \o Flatten(Tail(ss))

\* A record whose vector field holds elems, each w bytes wide:
\*   [pad:4][uoffset to the vector:4][length:4][element_0]...[element_n-1]
MakeTable(elems, w) ==
  [Pos |-> 0,
   Bytes |-> EncodeLE(0, 4) \o EncodeLE(UOffsetBytewidth, UOffsetBytewidth)
              \o EncodeLE(Len(elems), UOffsetBytewidth)
              \o Flatten([k \in 1..Len(elems) |-> EncodeLE(elems[k], w)])]

\* the bytes of the string records strs laid out one after the other, each
\* [length:4][bytes], and the address of each record when the first is at a
RECURSIVE StringRecords(_)
StringRecords(strs) ==
  IF strs = <<>> THEN <<>>
  ELSE EncodeLE(Len(Head(strs)), UOffsetBytewidth) \o Head(strs)
         \o StringRecords(Tail(strs))

\* A record whose vector field holds the strings strs:
\*   [pad:4][uoffset to the vector:4][length:4][uoffset_0]...[uoffset_n-1]
\*   [record_0]...[record_n-1], each uoffset relative to its own address
MakeStringTable(strs) ==
  LET n == Len(strs)
      slot(k) == 3 * UOffsetBytewidth + (k - 1) * UOffsetBytewidth
      rec(k) == 3 * UOffsetBytewidth + n * UOffsetBytewidth
                  + Len(StringRecords(SubSeq(strs, 1, k - 1)))
  IN [Pos |-> 0,
      Bytes |-> EncodeLE(0, 4) \o EncodeLE(UOffsetBytewidth, UOffsetBytewidth)
                 \o EncodeLE(n, UOffsetBytewidth)
                 \o Flatten([k \in 1..n |->
                               EncodeLE(rec(k) - slot(k), UOffsetBytewidth)])
                 \o StringRecords(strs)]

RECURSIVE DecodeLE(_, _, _)
DecodeLE(bytes, a, w) ==
  IF w = 0 THEN 0 ELSE bytes[a + 1] + 256 * DecodeLE(bytes, a + 1, w - 1)

\* table.Get(flags, address): the primitive of flags.bytewidth bytes at address
Table_Get(table, flags, a) ==
  IF a < 0 \/ a + flags.bytewidth > Len(table.Bytes)
  THEN Raise("AccessorError")
  ELSE Return(IntVal(DecodeLE(table.Bytes, a, flags.bytewidth)))

\* does the field offset denote the vector field of the table
Table_Resolves(table, off) == off = VecField

\* table.VectorLen(off): the element count in the length prefix
Table_VectorLen(table, off) ==
  IF ~Table_Resolves(table, off) THEN Raise("AccessorError")
  ELSE LET p == table.Pos + off
           q == p + DecodeLE(table.Bytes, p, UOffsetBytewidth)
       IN Return(IntVal(DecodeLE(table.Bytes, q, UOffsetBytewidth)))

\* table.Vector(off): the address of the first element
Table_Vector(table, off) ==
  LET p == table.Pos + off
  IN p + DecodeLE(table.Bytes, p, UOffsetBytewidth) + UOffsetBytewidth

\* table.String(a): the length-prefixed string record reachable from a
Table_String(table, a) ==
  IF a < 0 \/ a + UOffsetBytewidth > Len(table.Bytes) THEN Raise("AccessorError")
  ELSE LET p == a + DecodeLE(table.Bytes, a, UOffsetBytewidth)
       IN IF p + UOffsetBytewidth > Len(table.Bytes) THEN Raise("AccessorError")
          ELSE LET n == DecodeLE(table.Bytes, p, UOffsetBytewidth)
               IN IF p + UOffsetBytewidth + n > Len(table.Bytes)
                  THEN Raise("AccessorError")
                  ELSE Return(StrVal([k \in 1..n |->
                                 IntVal(table.Bytes[p + UOffsetBytewidth + k])]))

\* --------------------------------------------------------- Python builtins
Min(a, b) == IF a < b THEN a ELSE b
Max(a, b) == IF a > b THEN a ELSE b

\* slice.indices(length): the (start, stop, step) the slice denotes on a
\* sequence of the given length; ValueError on a zero step
PySliceIndices(key, length) ==
  LET step == IF key.step.some THEN key.step.v ELSE 1
      lower == IF step < 0 THEN -1 ELSE 0
      upper == IF step < 0 THEN length - 1 ELSE length
      Clamp(c) == IF c.v < 0 THEN Max(c.v + length, lower) ELSE Min(c.v, upper)
      start == IF key.start.some THEN Clamp(key.start)
               ELSE IF step < 0 THEN upper ELSE lower
      stop == IF key.stop.some THEN Clamp(key.stop)
              ELSE IF step < 0 THEN lower ELSE upper
  IN IF step = 0 THEN Raise("ValueError")
     ELSE Return(TupleVal(<<IntVal(start), IntVal(stop), IntVal(step)>>))

\* the integers start, start + step, ... short of stop
RECURSIVE PyRange(_, _, _)
PyRange(start, stop, step) ==
  IF (step > 0 /\ start >= stop) \/ (step < 0 /\ start <= stop) THEN <<>>
  ELSE <<start>> \o PyRange(start + step, stop, step)

\* compat.range_func(*args), the builtin range or xrange: every argument
\* must be an integer, one to three arguments, a step must not be zero
range_func(args) ==
  IF \E k \in 1..Len(args) : args[k].tag # "int" THEN Raise("TypeError")
  ELSE IF Len(args) = 0 \/ Len(args) > 3 THEN Raise("TypeError")
  ELSE LET start == IF Len(args) = 1 THEN 0 ELSE args[1].n
           stop == IF Len(args) = 1 THEN args[1].n ELSE args[2].n
           step == IF Len(args) = 3 THEN args[3].n ELSE 1
       IN IF step = 0 THEN Raise("ValueError")
          ELSE LET r == PyRange(start, stop, step)
               IN Return(ListVal([k \in 1..Len(r) |-> IntVal(r[k])]))

\* --------------------------------------------------------------- objects
\* A constructor yields [outcome, obj]: obj is <<the object>> when the
\* constructor returns and <<>> when an exception propagates out of it.
Built(o) == [outcome |-> "return", obj |-> <<o>>]
Failed(exc) == [outcome |-> exc, obj |-> <<>>]

NoFlags == [bytewidth |-> 0]
Uint8Flags == [bytewidth |-> 1]
Uint32Flags == [bytewidth |-> 4]

\* VectorIndexer.__init__ of an object of class kind
VectorIndexer_init(kind, table, offset, stride) ==
  LET n == Table_VectorLen(table, offset)
  IN IF n.outcome # "return" THEN Failed(n.outcome)
     ELSE Built([kind |-> kind, _table |-> table, _offset |-> offset,
                 _length |-> n.value.n, _stride |-> stride,
                 _flags |-> NoFlags, _struct_class |-> "object"])

\* StructVectorIndexer.__init__
StructVectorIndexer_init(table, offset, stride, struct_class) ==
  LET b == VectorIndexer_init("Struct", table, offset, stride)
  IN IF b.outcome # "return" THEN b
     ELSE Built([b.obj[1] EXCEPT !._struct_class = struct_class])

\* SimpleVectorIndexer.__init__
SimpleVectorIndexer_init(table, offset, flags) ==
  LET b == VectorIndexer_init("Simple", table, offset, flags.bytewidth)
  IN IF b.outcome # "return" THEN b
     ELSE Built([b.obj[1] EXCEPT !._flags = flags])

\* super(cls, self): TypeError unless self is an instance of cls
IsInstance(kind, cls) == kind = cls \/ cls = "VectorIndexer"

\* StringVectorIndexer.__init__: super(SimpleVectorIndexer, self)
StringVectorIndexer_init(table, offset, stride) ==
  IF ~IsInstance("String", "Simple") THEN Failed("TypeError")
  ELSE VectorIndexer_init("String", table, offset, stride)

\* StructVectorIndexer._unpack_index
StructVectorIndexer_unpack_index(v, index) ==
  LET a == Table_Vector(v._table, v._offset) + index * v._stride
  IN Return(StructVal(a))

\* the names visible in the body of SimpleVectorIndexer._unpack_index
SimpleUnpackNames == {"self", "index", "a"}

\* SimpleVectorIndexer._unpack_index: the address argument is the name offset
SimpleVectorIndexer_unpack_index(v, index) ==
  LET a == Table_Vector(v._table, v._offset) + index * v._stride
  IN IF "offset" \notin SimpleUnpackNames THEN Raise("NameError")
     ELSE Table_Get(v._table, v._flags, a)

\* StringVectorIndexer._unpack_index
StringVectorIndexer_unpack_index(v, index) ==
  LET a == Table_Vector(v._table, v._offset) + index * v._stride
  IN Table_String(v._table, a)

\* self._unpack_index(index), dispatched on the class of self
unpack_index(v, index) ==
  LET r == CASE v.kind = "Struct" -> StructVectorIndexer_unpack_index(v, index)
             [] v.kind = "Simple" -> SimpleVectorIndexer_unpack_index(v, index)
             [] v.kind = "String" -> StringVectorIndexer_unpack_index(v, index)
             [] OTHER -> Raise("NotImplementedError")
  IN [r EXCEPT !.unpacked = <<index>>]

\* [self._unpack_index(i) for i in idxs]
RECURSIVE ListComp(_, _)
ListComp(v, idxs) ==
  IF idxs = <<>> THEN Return(ListVal(<<>>))
  ELSE LET h == unpack_index(v, Head(idxs).n)
       IN IF h.outcome # "return" THEN h
          ELSE LET t == ListComp(v, Tail(idxs))
               IN IF t.outcome # "return"
                  THEN [t EXCEPT !.unpacked = h.unpacked \o @]
                  ELSE [outcome |-> "return",
                        value |-> ListVal(<<h.value>> \o t.value.s),
                        unpacked |-> h.unpacked \o t.unpacked]

\* VectorIndexer._unpack_slice_index: range_func is handed the tuple
VectorIndexer_unpack_slice_index(v, slice_index) ==
  LET ind == PySliceIndices(slice_index, v._length)
  IN IF ind.outcome # "return" THEN ind
     ELSE LET rng == range_func(<<ind.value>>)
          IN IF rng.outcome # "return" THEN rng
             ELSE ListComp(v, rng.value.s)

\* SimpleVectorIndexer._unpack_slice_index: pass
SimpleVectorIndexer_unpack_slice_index(v, index) == Return(None)

\* self._unpack_slice_index(index), dispatched on the class of self
unpack_slice_index(v, index) ==
  IF v.kind = "Simple" THEN SimpleVectorIndexer_unpack_slice_index(v, index)
  ELSE VectorIndexer_unpack_slice_index(v, index)

\* __getitem__ without the test for a negative index
VectorIndexer_getitem_NoLowerCheck(v, index) ==
  IF IsInt(index)
  THEN IF index.i >= v._length THEN Raise("IndexError")
       ELSE unpack_index(v, index.i)
  ELSE IF IsSlice(index) THEN unpack_slice_index(v, index)
  ELSE Raise("TypeError")

\* __getitem__ without the final else: a key of another type falls through
VectorIndexer_getitem_NoTypeCheck(v, index) ==
  IF IsInt(index)
  THEN IF index.i < 0 \/ index.i >= v._length THEN Raise("IndexError")
       ELSE unpack_index(v, index.i)
  ELSE IF IsSlice(index) THEN unpack_slice_index(v, index)
  ELSE Return(None)

\* VectorIndexer.__getitem__
VectorIndexer_getitem(v, index) ==
  IF IsInt(index)
  THEN IF index.i < 0 \/ index.i >= v._length THEN Raise("IndexError")
       ELSE unpack_index(v, index.i)
  ELSE IF IsSlice(index) THEN unpack_slice_index(v, index)
  ELSE Raise("TypeError")

\* VectorIndexer.__len__
VectorIndexer_len(v) == Return(IntVal(v._length))

\* the names visible in the body of VectorIterator.__init__
IteratorInitNames == {"self", "vector_Indexer"}

\* VectorIterator.__init__ over views[ref] = v: the length is len(vector)
VectorIterator_init(ref, v) ==
  IF "vector" \notin IteratorInitNames THEN Failed("NameError")
  ELSE Built([_vec |-> ref, _next_index |-> 0,
              _length |-> VectorIndexer_len(v).value.n])

\* VectorIndexer.__iter__
VectorIndexer_iter(ref, v) == VectorIterator_init(ref, v)

\* VectorIterator.next on iterator it over v: the result and the iterator after
VectorIterator_next(it, v) ==
  IF it._next_index >= it._length
  THEN [res |-> Raise("StopIteration"), it |-> it]
  ELSE LET item == VectorIndexer_getitem(v, IntKey(it._next_index))
       IN IF item.outcome # "return" THEN [res |-> item, it |-> it]
          ELSE [res |-> item,
                it |-> [it EXCEPT !._next_index = @ + 1]]

\* it.next() until StopIteration: the list of the items returned
RECURSIVE Drain(_, _)
Drain(it, v) ==
  LET n == VectorIterator_next(it, v)
  IN IF n.res.outcome = "StopIteration" THEN Return(ListVal(<<>>))
     ELSE IF n.res.outcome # "return" THEN n.res
     ELSE LET t == Drain(n.it, v)
          IN IF t.outcome # "return"
             THEN [t EXCEPT !.unpacked = n.res.unpacked \o @]
             ELSE [outcome |-> "return",
                   value |-> ListVal(<<n.res.value>> \o t.value.s),
                   unpacked |-> n.res.unpacked \o t.unpacked]

\* [x for x in v]: v.__iter__() and then next() until StopIteration
Collect(v) ==
  LET c == VectorIndexer_iter(1, v)
  IN IF c.outcome # "return" THEN Raise(c.outcome) ELSE Drain(c.obj[1], v)

\* ---------------------------------------------------------------- inputs
ElemVals == {10, 20, 30}
Widths == {1, 4}
FlagsOf(w) == IF w = 1 THEN Uint8Flags ELSE Uint32Flags

SeqsUpTo(S, n) == UNION {[1..k -> S] : k \in 0..n}
ElemSeqs == SeqsUpTo(ElemVals, MaxLen)
StrVals == {<<97, 98>>, <<120, 121, 122>>}
StrSeqs == SeqsUpTo(StrVals, MaxLen)
FieldOffsets == {VecField, BadField}

Bound == MaxLen + 1
IntKeys == {IntKey(k) : k \in -Bound..Bound}
BoolKeys == {BoolKey(b) : b \in BOOLEAN}
OtherKeys == {OtherKey(t) : t \in {"str", "float", "NoneType"}}
OptInts(S) == {Absent} \cup {Some(k) : k \in S}
SliceStarts == OptInts({-Bound, 0, 1, Bound})
SliceStops == OptInts({-Bound, -1} \cup 0..Bound)
SliceSteps == {Some(k) : k \in {-1, 0, 1, 2}}
SliceKeys == {SliceKey(a, b, c) : a \in SliceStarts, b \in SliceStops, c \in SliceSteps}
Keys == IntKeys \cup BoolKeys \cup OtherKeys \cup SliceKeys

\* ----------------------------------------------------------------- state
VARIABLES views, iters, last
vars == <<views, iters, last>>

\* the last call the caller made: the operation, its key argument, the
\* arguments of a constructor call, and the result
Call(kind, table, off, stride) ==
  [kind |-> kind, table |-> table, off |-> off, stride |-> stride]
NoCall == Call("none", [Pos |-> 0, Bytes |-> <<>>], 0, 0)
Op(op, key, res) == [op |-> op, key |-> key, res |-> res, call |-> NoCall]

Init ==
  /\ views = <<>>
  /\ iters = <<>>
  /\ last = Op("start", NoKey, Return(None))

\* the caller constructs a view; nothing is bound when the constructor raises
Constructed(c, call) ==
  /\ views' = views \o c.obj
  /\ last' = [Op("construct", NoKey, Raise(c.outcome)) EXCEPT !.call = call]
  /\ UNCHANGED iters

ConstructStruct ==
  /\ views = <<>>
  /\ \E e \in ElemSeqs, w \in Widths, off \in FieldOffsets :
       Constructed(StructVectorIndexer_init(MakeTable(e, w), off, w, "Item"),
                   Call("Struct", MakeTable(e, w), off, w))

ConstructSimple ==
  /\ views = <<>>
  /\ \E e \in ElemSeqs, w \in Widths, off \in FieldOffsets :
       Constructed(SimpleVectorIndexer_init(MakeTable(e, w), off, FlagsOf(w)),
                   Call("Simple", MakeTable(e, w), off, w))

ConstructString ==
  /\ views = <<>>
  /\ \E e \in StrSeqs, off \in FieldOffsets :
       Constructed(StringVectorIndexer_init(MakeStringTable(e), off,
                                            UOffsetBytewidth),
                   Call("String", MakeStringTable(e), off, UOffsetBytewidth))

\* view[key]
GetItem ==
  /\ views # <<>>
  /\ \E key \in Keys : last' = Op("getitem", key, VectorIndexer_getitem(views[1], key))
  /\ UNCHANGED <<views, iters>>

\* len(view)
LenOp ==
  /\ views # <<>>
  /\ last' = Op("len", NoKey, VectorIndexer_len(views[1]))
  /\ UNCHANGED <<views, iters>>

\* iter(view): the caller keeps the iterator
Iter ==
  /\ views # <<>>
  /\ Len(iters) < MaxIters
  /\ LET c == VectorIndexer_iter(1, views[1])
     IN /\ iters' = iters \o c.obj
        /\ last' = Op("iter", NoKey,
                      IF c.outcome = "return" THEN Return(IterVal(Len(iters) + 1))
                      ELSE Raise(c.outcome))
  /\ UNCHANGED views

\* it.next() on one of the iterators the caller keeps.  The step needs an
\* iterator, and VectorIterator.__init__ never returns one (it raises on
\* len(vector)), so no behaviour of the module takes it: it is not a disjunct
\* of Next.
Advance ==
  /\ \E k \in 1..Len(iters) :
       LET n == VectorIterator_next(iters[k], views[iters[k]._vec])
       IN /\ iters' = [iters EXCEPT ![k] = n.it]
          /\ last' = Op("next", IntKey(k), n.res)
  /\ UNCHANGED views

\* a full traversal of the view
CollectOp ==
  /\ views # <<>>
  /\ last' = Op("collect", NoKey, Collect(views[1]))
  /\ UNCHANGED <<views, iters>>

Next ==
  \/ ConstructStruct
  \/ ConstructSimple
  \/ ConstructString
  \/ GetItem
  \/ LenOp
  \/ Iter
  \/ CollectOp

Spec == Init /\ [][Next]_vars

\* ================================================================ claims
\* the view the caller holds, and what the claims call get(i)
View == views[1]
Get(v, i) == VectorIndexer_getitem(v, IntKey(i))
InRange(v, i) == 0 <= i /\ i < v._length

\* C1: on every constructed view, an integer index i with i < 0 or
\* i >= length makes get(i) fail with the out-of-range error (IndexError):
\* no element is returned, i is not clamped, and _unpack_index is not called.
C1_OutOfRangeRaises ==
  (last.op = "getitem" /\ IsInt(last.key) /\ ~InRange(View, last.key.i))
    => /\ last.res.outcome = "IndexError"
       /\ last.res.value = None
       /\ last.res.unpacked = <<>>

\* C1 happens: the index equal to the length of a non-empty vector has
\* been refused
C1_Witness ==
  /\ last.op = "getitem" /\ last.key.type = "int"
  /\ last.key.i = View._length /\ View._length > 0
  /\ last.res.outcome = "IndexError"

\* C2: on a scalar view the stride is the descriptor's byte width and, for
\* 0 <= i < length, get(i) returns read_scalar(descriptor,
\* vector_data_address(field_offset) + i * stride).
C2_ScalarGetReadsElement ==
  (last.op = "getitem" /\ View.kind = "Simple" /\ last.key.type = "int"
     /\ InRange(View, last.key.i))
    => /\ View._stride = View._flags.bytewidth
       /\ last.res.outcome = "return"
       /\ last.res.value =
            Table_Get(View._table, View._flags,
                      Table_Vector(View._table, View._offset)
                        + last.key.i * View._stride).value

\* C3: a full traversal of any constructed view (iterate(), then advance
\* until end-of-sequence) yields exactly length elements, the k-th being
\* get(k); for length 0 it yields none.
C3_IterationYieldsAll ==
  (last.op = "collect")
    => /\ last.res.outcome = "return"
       /\ Len(last.res.value.s) = View._length
       /\ \A k \in 0..(View._length - 1) :
            /\ Get(View, k).outcome = "return"
            /\ last.res.value.s[k + 1] = Get(View, k).value

\* the indices a slice denotes on a sequence of the given length
SliceIndexSeq(key, length) ==
  LET t == PySliceIndices(key, length).value.s
  IN PyRange(t[1].n, t[2].n, t[3].n)

\* [get(i) for i in the normalization of the slice], as the claims state it
GenericSlice(v, key) ==
  LET idx == SliceIndexSeq(key, v._length)
  IN ListVal([k \in 1..Len(idx) |-> Get(v, idx[k]).value])

NonZeroStep(key) == ~(key.step.some /\ key.step.v = 0)

\* C4: on a view that does not override slicing (struct and string views),
\* slice(start, stop, step) with step # 0 does not raise and returns
\* [get(i) for i in the standard normalization of the range against length].
C4_GenericSliceMaterializes ==
  (last.op = "getitem" /\ View.kind \in {"Struct", "String"}
     /\ IsSlice(last.key) /\ NonZeroStep(last.key))
    => /\ last.res.outcome = "return"
       /\ last.res.value = GenericSlice(View, last.key)

\* C5: on every view, the slice (0, length, 1) returns the same ordered
\* sequence of elements as collecting a full iteration of the view.
C5_FullSliceEqualsIteration ==
  (last.op = "getitem"
     /\ last.key = SliceKey(Some(0), Some(View._length), Some(1)))
    => /\ last.res.outcome = "return"
       /\ Collect(View).outcome = "return"
       /\ last.res.value = Collect(View).value

\* C6: constructing a string view from (table, field_offset, stride)
\* succeeds whenever the table resolves a length at field_offset, the view
\* then holds the table, the field offset, the stride and
\* length = vector_length(field_offset); it fails only with the accessor's
\* own failure.
C6_StringViewConstructs ==
  (last.op = "construct" /\ last.call.kind = "String")
    => LET table == last.call.table
       IN IF Table_Resolves(table, last.call.off)
          THEN /\ last.res.outcome = "return"
               /\ Len(views) = 1
               /\ View.kind = "String"
               /\ View._table = table
               /\ View._offset = last.call.off
               /\ View._stride = last.call.stride
               /\ View._length = Table_VectorLen(table, last.call.off).value.n
          ELSE /\ last.res.outcome = "AccessorError"
               /\ views = <<>>

\* C7: on every view, indexed access with a key that is neither an integer
\* nor a slice fails with the type error (TypeError), which is not the
\* out-of-range error, and returns no element.
C7_BadKeyTypeRaises ==
  (last.op = "getitem" /\ ~IsInt(last.key) /\ ~IsSlice(last.key))
    => /\ last.res.outcome = "TypeError"
       /\ last.res.outcome # "IndexError"
       /\ last.res.value = None
       /\ last.res.unpacked = <<>>

\* C7 happens: a string key has been refused on a non-empty view
C7_Witness ==
  /\ last.op = "getitem" /\ last.key = OtherKey("str")
  /\ View._length > 0
  /\ last.res.outcome = "TypeError"

\* the iterator after k calls of next, and the result of the k-th call
RECURSIVE AfterAdvances(_, _, _)
AfterAdvances(it, v, k) ==
  IF k = 0 THEN [res |-> Return(None), it |-> it]
  ELSE VectorIterator_next(AfterAdvances(it, v, k - 1).it, v)

\* C8: an iterator starts with next_index = 0; each successful advance
\* adds exactly 1 to next_index, which never exceeds length; it is exhausted
\* after exactly length successful advances, and every advance from then on
\* signals end-of-sequence and leaves next_index unchanged.
C8_IteratorLifecycle ==
  (last.op = "iter")
    => /\ last.res.outcome = "return"
       /\ LET it == iters[last.res.value.n]
              n == View._length
          IN /\ it._next_index = 0
             /\ it._length = n
             /\ \A k \in 1..n :
                  /\ AfterAdvances(it, View, k).res.outcome = "return"
                  /\ AfterAdvances(it, View, k).it._next_index = k
             /\ \A k \in (n + 1)..(n + 2) :
                  /\ AfterAdvances(it, View, k).res.outcome = "StopIteration"
                  /\ AfterAdvances(it, View, k).it._next_index = n

\* C10: an advance changes only the cursor of the iterator it is called on;
\* the view's stored state and every other iterator are unchanged by
\* advance, get, slice, length and iterate, and every iterator made from
\* the view yields get(0) .. get(length - 1) in order whatever the other
\* iterators have done.
C10_FrameAndIndependence ==
  [][ /\ (views # <<>> => views' = views)
      /\ (last'.op = "next" =>
            \A k \in 1..Len(iters) :
              k # last'.key.i => iters'[k] = iters[k])
      /\ (last'.op = "iter" =>
            /\ Len(iters') = Len(iters) + 1
            /\ \A k \in 1..Len(iters) : iters'[k] = iters[k])
      /\ \A k \in 1..Len(iters') :
           LET it == iters'[k]
               rest == Drain(it, View)
           IN /\ rest.outcome = "return"
              /\ Len(rest.value.s) = View._length - it._next_index
              /\ \A j \in 1..Len(rest.value.s) :
                   rest.value.s[j] = Get(View, it._next_index + j - 1).value
    ]_vars

\* C9: on a scalar view, slice(range) is the base generic slice,
\* [get(i) for i in the normalized range]; on an empty vector slice(0:) is
\* the empty sequence, never an absent result.
C9_ScalarSliceIsGeneric ==
  (last.op = "getitem" /\ View.kind = "Simple"
     /\ IsSlice(last.key) /\ NonZeroStep(last.key))
    => /\ last.res.outcome = "return"
       /\ last.res.value.tag = "list"
       /\ last.res.value = GenericSlice(View, last.key)

====
